---------------------------- MODULE Spec2Model ----------------------------
(***************************************************************************)
(* Reader-writer locks of rw_lock/locks.py: ReaderPriorityRWLock,          *)
(* WriterPriorityRWLock and FairRWLock, used by a set of client threads    *)
(* through the read()/write() context managers.                            *)
(*                                                                         *)
(* threading.Lock is a binary, owner-less lock without any fairness among  *)
(* the threads that contend for it.  threading.Condition keeps its waiters *)
(* in a deque: wait() appends the caller and releases the monitor in one   *)
(* atomic step, notify() removes the oldest waiter, notify_all() removes   *)
(* them all, and a removed waiter returns from wait() only once it has     *)
(* taken the monitor again, in competition with every other thread.        *)
(*                                                                         *)
(* A `with self._monitor:` block that cannot block inside is one step,     *)
(* taken when the monitor is free: everything it reads and writes is       *)
(* touched under the monitor only.  The one block that can block inside,   *)
(* the first reader of ReaderPriorityRWLock taking self._writer_lock,      *)
(* holds the monitor across steps.                                         *)
(***************************************************************************)
EXTENDS Integers, Sequences, FiniteSets, TLC

\* Number of client threads sharing one lock instance.
NumThreads == 4

Threads == 1..NumThreads

\* Holder value of a free monitor.
None == 0

VARIABLES
    policy,               \* main.py 119-124: "reader" | "writer" | "fair"
    history,              \* whether the history variables below are kept
    pc,                   \* position of each thread in read()/write()
    outer,                \* section a thread holds while it calls an acquire again
    cycles_left,          \* guards a thread of a bounded workload has still to enter
    err,                  \* "none" | "read" | "write": body of that guard raised
    monitor,              \* self._monitor: the thread inside `with self._monitor`, or None
    reader_count,         \* self._reader_count (ReaderPriority, WriterPriority)
    writer_lock,          \* self._writer_lock (ReaderPriority): TRUE when locked
    writer_active,        \* self._writer_active (WriterPriority, Fair)
    writer_waiting_count, \* self._writer_waiting_count (WriterPriority)
    readers_ok,           \* waiters of self._readers_ok (WriterPriority)
    writers_ok,           \* waiters of self._writers_ok (WriterPriority)
    readers_active,       \* self._readers_active (Fair)
    waiting_count,        \* self._waiting_count (Fair)
    queue,                \* waiters of self._queue (Fair)
    prior,                \* history: writers registered when a reader called _read_acquire
    owed,                 \* history: writers seen queued while a reader was in _read_acquire
    ahead                 \* history: conflicting requests registered before this one (Fair)

lockVars == <<monitor, reader_count, writer_lock, writer_active,
              writer_waiting_count, readers_ok, writers_ok,
              readers_active, waiting_count, queue>>
histVars == <<prior, owed, ahead>>
config == <<policy, history>>
vars == <<config, pc, outer, cycles_left, err, lockVars, histVars>>

rpUnused == <<writer_active, writer_waiting_count, readers_ok, writers_ok,
              readers_active, waiting_count, queue, prior, owed, ahead>>
wpUnused == <<writer_lock, readers_active, waiting_count, queue, ahead>>
fairUnused == <<reader_count, writer_lock, writer_waiting_count, readers_ok,
                writers_ok, prior, owed>>

----------------------------------------------------------------------------
(* threading.Condition *)

Range(s) == {s[i] : i \in 1..Len(s)}

\* cv.wait(): the caller joins the waiters (the monitor is released with it).
Wait(cv, t) == Append(cv, t)

\* Mutant: notify_all() where the code calls notify().
Notify_Everyone(cv) == <<>>

\* cv.notify(): the oldest waiter, if any, is woken.
Notify(cv) == IF cv = <<>> THEN cv ELSE Tail(cv)

\* Mutant: notify() where the code calls notify_all().
NotifyAll_OnlyOne(cv) == IF cv = <<>> THEN cv ELSE Tail(cv)

\* cv.notify_all(): every waiter is woken.
NotifyAll(cv) == <<>>

----------------------------------------------------------------------------
(* Positions *)

\* "ra_enter"/"wa_enter": _read_acquire/_write_acquire called, not yet inside
\*     its monitor section (ReaderPriority's _write_acquire: not yet past
\*     self._writer_lock.acquire());
\* "ra_gate": first reader of ReaderPriority, inside the monitor section, in
\*     self._writer_lock.acquire();
\* "ra_wait"/"wa_wait": inside Condition.wait();
\* "reading"/"writing": inside the body of the guard;
\* "rr_enter"/"wr_enter": _read_release/_write_release called, not yet inside
\*     its monitor section;
\* "idle": outside any guard; "raised": outside, the error of the body propagated.
ReadAcquirePcs == {"ra_enter", "ra_gate", "ra_wait"}
WriteAcquirePcs == {"wa_enter", "wa_wait"}
Pcs == {"idle", "raised", "reading", "writing", "rr_enter", "wr_enter"}
          \cup ReadAcquirePcs \cup WriteAcquirePcs

\* Inside a critical section: the body of `with lock.read()` / `with lock.write()`.
InReadCS(t) == pc[t] = "reading"
InWriteCS(t) == pc[t] = "writing"

\* From the return of the acquire to the end of the matching release.
HoldsRead(t) == pc[t] \in {"reading", "rr_enter"}
HoldsWrite(t) == pc[t] \in {"writing", "wr_enter"}

Goto(t, p) == pc' = [pc EXCEPT ![t] = p]

----------------------------------------------------------------------------
(* Construction: __init__ of the class main() selects *)

Policies == {"reader", "writer", "fair"}

\* The state after lock = <class p>(), before any thread runs; h tells whether
\* the history variables are kept in this behaviour, n how many guards each
\* thread of a bounded workload enters.
InitWorkload(p, h, n) ==
    /\ policy = p
    /\ history = h
    /\ pc = [t \in Threads |-> "idle"]
    /\ outer = [t \in Threads |-> "none"]
    /\ cycles_left = [t \in Threads |-> n]
    /\ err = [t \in Threads |-> "none"]
    /\ monitor = None
    /\ reader_count = 0
    /\ writer_lock = FALSE
    /\ writer_active = FALSE
    /\ writer_waiting_count = 0
    /\ readers_ok = <<>>
    /\ writers_ok = <<>>
    /\ readers_active = 0
    /\ waiting_count = 0
    /\ queue = <<>>
    /\ prior = [t \in Threads |-> {}]
    /\ owed = [t \in Threads |-> {}]
    /\ ahead = [t \in Threads |-> {}]

InitLock(p, h) == InitWorkload(p, h, 0)

Init == \E p \in Policies : InitLock(p, FALSE)

\* History: h with h[t] set to the threads S, when histories are kept.
Record(h, t, S) == IF history THEN [h EXCEPT ![t] = S] ELSE h

\* History: thread w is granted / has released.
Drop(h, w) == IF history THEN [r \in Threads |-> h[r] \ {w}] ELSE h

----------------------------------------------------------------------------
(* The context managers read() and write(), the same in the three classes *)

\* Writers that have entered WriterPriorityRWLock._write_acquire's monitor
\* section (incremented _writer_waiting_count) and not finished _write_release.
RegisteredWriters == {w \in Threads : pc[w] \in {"wa_wait", "writing", "wr_enter"}}

\* Writers queued in WriterPriorityRWLock._write_acquire, not yet granted.
QueuedWriters == {w \in Threads : pc[w] = "wa_wait"}

\* read(): self._read_acquire() is called; c is cycles_left afterwards.
read_call(t, c) ==
    /\ pc[t] \in {"idle", "raised"}
    /\ Goto(t, "ra_enter")
    /\ err' = [err EXCEPT ![t] = "none"]
    /\ prior' = IF policy = "writer" THEN Record(prior, t, RegisteredWriters) ELSE prior
    /\ owed' = IF policy = "writer" THEN Record(owed, t, QueuedWriters) ELSE owed
    /\ cycles_left' = c
    /\ UNCHANGED <<config, outer, lockVars, ahead>>

read_enter(t) == read_call(t, cycles_left)

\* write(): self._write_acquire() is called; c is cycles_left afterwards.
write_call(t, c) ==
    /\ pc[t] \in {"idle", "raised"}
    /\ Goto(t, "wa_enter")
    /\ err' = [err EXCEPT ![t] = "none"]
    /\ cycles_left' = c
    /\ UNCHANGED <<config, outer, lockVars, histVars>>

write_enter(t) == write_call(t, cycles_left)

\* Mutant: `yield` without try/finally, the error leaves the guard at once.
OnRaise_NoFinally(release) == "raised"

\* Where control goes when the body raises inside `try: yield / finally:`:
\* to the release call of the finally clause.
OnRaise(release) == release

\* Where control goes when the release has run: the error, if any, propagates.
AfterRelease(t) == IF err[t] = "none" THEN "idle" ELSE "raised"

\* The body of `with lock.read():` finishes normally; finally: _read_release().
read_body_done(t) ==
    /\ pc[t] = "reading"
    /\ Goto(t, "rr_enter")
    /\ UNCHANGED <<config, outer, cycles_left, err, lockVars, histVars>>

\* The body of `with lock.read():` raises; finally: _read_release().
read_body_raise(t) ==
    /\ pc[t] = "reading"
    /\ Goto(t, OnRaise("rr_enter"))
    /\ err' = [err EXCEPT ![t] = "read"]
    /\ UNCHANGED <<config, outer, cycles_left, lockVars, histVars>>

\* The body of `with lock.write():` finishes normally; finally: _write_release().
write_body_done(t) ==
    /\ pc[t] = "writing"
    /\ Goto(t, "wr_enter")
    /\ UNCHANGED <<config, outer, cycles_left, err, lockVars, histVars>>

\* The body of `with lock.write():` raises; finally: _write_release().
write_body_raise(t) ==
    /\ pc[t] = "writing"
    /\ Goto(t, OnRaise("wr_enter"))
    /\ err' = [err EXCEPT ![t] = "write"]
    /\ UNCHANGED <<config, outer, cycles_left, lockVars, histVars>>

----------------------------------------------------------------------------
(* 1. ReaderPriorityRWLock *)

\* Mutant: every reader takes the writer lock, not only the first.
RP_FirstReader_Every(n) == n >= 1

\* `if self._reader_count == 1` in _read_acquire, after the increment.
RP_FirstReader(n) == n = 1

\* Mutant: the writer lock is released when one reader is still inside.
RP_LastReader_OffByOne(n) == n <= 1

\* Mutant: the last reader never releases the writer lock.
RP_LastReader_Never(n) == FALSE

\* `if self._reader_count == 0` in _read_release, after the decrement.
RP_LastReader(n) == n = 0

\* _read_acquire: the monitor is entered and _reader_count incremented; the
\* first reader goes on to self._writer_lock.acquire() with the monitor
\* held, any other reader leaves the monitor and returns.
RP_read_acquire(t) ==
    /\ policy = "reader"
    /\ pc[t] = "ra_enter"
    /\ monitor = None
    /\ reader_count' = reader_count + 1
    /\ IF RP_FirstReader(reader_count')
       THEN Goto(t, "ra_gate") /\ monitor' = t
       ELSE Goto(t, "reading") /\ UNCHANGED monitor
    /\ UNCHANGED <<config, outer, cycles_left, err, writer_lock, rpUnused>>

\* _read_acquire: self._writer_lock.acquire() of the first reader returns,
\* and the monitor is left.
RP_read_acquire_gate(t) ==
    /\ policy = "reader"
    /\ pc[t] = "ra_gate"
    /\ ~writer_lock
    /\ writer_lock' = TRUE
    /\ monitor' = None
    /\ Goto(t, "reading")
    /\ UNCHANGED <<config, outer, cycles_left, err, reader_count, rpUnused>>

\* _read_release: the decrement; the last reader releases the writer lock
\* (Lock.release() of an unlocked lock raises RuntimeError).
RP_read_release(t) ==
    /\ policy = "reader"
    /\ pc[t] = "rr_enter"
    /\ monitor = None
    /\ reader_count' = reader_count - 1
    /\ IF RP_LastReader(reader_count')
       THEN /\ writer_lock' = FALSE
            /\ Goto(t, IF writer_lock THEN AfterRelease(t) ELSE "raised")
       ELSE /\ UNCHANGED writer_lock
            /\ Goto(t, AfterRelease(t))
    /\ UNCHANGED <<config, outer, cycles_left, err, monitor, rpUnused>>

\* _write_acquire: self._writer_lock.acquire() returns.
RP_write_acquire(t) ==
    /\ policy = "reader"
    /\ pc[t] = "wa_enter"
    /\ ~writer_lock
    /\ writer_lock' = TRUE
    /\ Goto(t, "writing")
    /\ UNCHANGED <<config, outer, cycles_left, err, monitor, reader_count, rpUnused>>

\* _write_release: self._writer_lock.release().
RP_write_release(t) ==
    /\ policy = "reader"
    /\ pc[t] = "wr_enter"
    /\ writer_lock' = FALSE
    /\ Goto(t, IF writer_lock THEN AfterRelease(t) ELSE "raised")
    /\ UNCHANGED <<config, outer, cycles_left, err, monitor, reader_count, rpUnused>>

RPStep(t) ==
    \/ RP_read_acquire(t)
    \/ RP_read_acquire_gate(t)
    \/ RP_read_release(t)
    \/ RP_write_acquire(t)
    \/ RP_write_release(t)

----------------------------------------------------------------------------
(* 2. WriterPriorityRWLock *)

\* Mutant: the reader ignores the waiting writers.
WP_ReaderMustWait_ActiveOnly == writer_active

\* Mutant: the reader ignores the active writer.
WP_ReaderMustWait_WaitingOnly == writer_waiting_count > 0

\* `while self._writer_active or self._writer_waiting_count > 0` in _read_acquire.
WP_ReaderMustWait == writer_active \/ writer_waiting_count > 0

\* Mutant: the writer ignores the active writer.
WP_WriterMustWait_ReadersOnly == reader_count > 0

\* `while self._reader_count > 0 or self._writer_active` in _write_acquire.
WP_WriterMustWait == reader_count > 0 \/ writer_active

\* Mutant: the writer does not count itself as waiting.
WP_Register_Missing(n) == n

\* Mutant: the writer counts itself twice.
WP_Register_Twice(n) == n + 2

\* `self._writer_waiting_count += 1` in _write_acquire.
WP_Register(n) == n + 1

\* History: writer w is queued while the readers in rs are inside _read_acquire.
OwedTo(rs, w) ==
    IF history
    THEN [r \in Threads |-> IF r \in rs THEN owed[r] \cup {w} ELSE owed[r]]
    ELSE owed

ReadersAcquiring == {r \in Threads : pc[r] \in ReadAcquirePcs}

\* _read_acquire, entered from the call or resumed when self._readers_ok.wait()
\* returns: one evaluation of the while condition, then either
\* self._readers_ok.wait() or the increment and the end of the with block.
WP_read_acquire(t) ==
    /\ policy = "writer"
    /\ \/ pc[t] = "ra_enter"
       \/ pc[t] = "ra_wait" /\ t \notin Range(readers_ok)
    /\ monitor = None
    /\ IF WP_ReaderMustWait
       THEN /\ readers_ok' = Wait(readers_ok, t)
            /\ Goto(t, "ra_wait")
            /\ UNCHANGED reader_count
       ELSE /\ reader_count' = reader_count + 1
            /\ Goto(t, "reading")
            /\ UNCHANGED readers_ok
    /\ UNCHANGED <<config, outer, cycles_left, err, monitor, writer_active, writer_waiting_count,
                   writers_ok, prior, owed, wpUnused>>

\* _read_release: the decrement and the notify() of one writer.
WP_read_release(t) ==
    /\ policy = "writer"
    /\ pc[t] = "rr_enter"
    /\ monitor = None
    /\ reader_count' = reader_count - 1
    /\ writers_ok' = IF reader_count' = 0 /\ writer_waiting_count > 0
                     THEN Notify(writers_ok)
                     ELSE writers_ok
    /\ Goto(t, AfterRelease(t))
    /\ UNCHANGED <<config, outer, cycles_left, err, monitor, writer_active, writer_waiting_count,
                   readers_ok, prior, owed, wpUnused>>

\* _write_acquire from the call: the increment of _writer_waiting_count and
\* the first evaluation of the while condition, then self._writers_ok.wait(),
\* or the decrement, _writer_active = True and the end of the with block.
WP_write_acquire(t) ==
    /\ policy = "writer"
    /\ pc[t] = "wa_enter"
    /\ monitor = None
    /\ IF WP_WriterMustWait
       THEN /\ writer_waiting_count' = WP_Register(writer_waiting_count)
            /\ writers_ok' = Wait(writers_ok, t)
            /\ Goto(t, "wa_wait")
            /\ owed' = OwedTo(ReadersAcquiring, t)
            /\ UNCHANGED writer_active
       ELSE /\ writer_waiting_count' = WP_Register(writer_waiting_count) - 1
            /\ writer_active' = TRUE
            /\ Goto(t, "writing")
            /\ UNCHANGED <<writers_ok, owed>>
    /\ UNCHANGED <<config, outer, cycles_left, err, monitor, reader_count, readers_ok, prior, wpUnused>>

\* _write_acquire resumed when self._writers_ok.wait() returns: the while
\* condition is evaluated again.
WP_write_acquire_wake(t) ==
    /\ policy = "writer"
    /\ pc[t] = "wa_wait"
    /\ t \notin Range(writers_ok)
    /\ monitor = None
    /\ IF WP_WriterMustWait
       THEN /\ writers_ok' = Wait(writers_ok, t)
            /\ UNCHANGED <<pc, writer_waiting_count, writer_active, owed>>
       ELSE /\ writer_waiting_count' = writer_waiting_count - 1
            /\ writer_active' = TRUE
            /\ Goto(t, "writing")
            /\ owed' = Drop(owed, t)
            /\ UNCHANGED writers_ok
    /\ UNCHANGED <<config, outer, cycles_left, err, monitor, reader_count, readers_ok, prior, wpUnused>>

\* _write_release: _writer_active = False, then notify() of one writer if a
\* writer waits, notify_all() of the readers otherwise.
WP_write_release(t) ==
    /\ policy = "writer"
    /\ pc[t] = "wr_enter"
    /\ monitor = None
    /\ writer_active' = FALSE
    /\ IF writer_waiting_count > 0
       THEN writers_ok' = Notify(writers_ok) /\ UNCHANGED readers_ok
       ELSE readers_ok' = NotifyAll(readers_ok) /\ UNCHANGED writers_ok
    /\ Goto(t, AfterRelease(t))
    /\ prior' = Drop(prior, t)
    /\ UNCHANGED <<config, outer, cycles_left, err, monitor, reader_count, writer_waiting_count,
                   owed, wpUnused>>

WPStep(t) ==
    \/ WP_read_acquire(t)
    \/ WP_read_release(t)
    \/ WP_write_acquire(t)
    \/ WP_write_acquire_wake(t)
    \/ WP_write_release(t)

----------------------------------------------------------------------------
(* 3. FairRWLock *)

\* Mutant: the reader does not look at the writer at all.
Fair_ReaderMustWait_Never == FALSE

\* `while self._writer_active` in _read_acquire.
Fair_ReaderMustWait == writer_active

\* Mutant: the writer ignores the active readers.
Fair_WriterMustWait_WriterOnly == writer_active

\* Mutant: the writer does not wait for one last reader (itself, when it holds
\* a read section).
Fair_WriterMustWait_Upgrade == readers_active > 1 \/ writer_active

\* `while self._readers_active > 0 or self._writer_active` in _write_acquire.
Fair_WriterMustWait == readers_active > 0 \/ writer_active

\* Threads that incremented _waiting_count and were not granted yet.
WaitingReaders == {r \in Threads : pc[r] = "ra_wait"}
WaitingWriters == {w \in Threads : pc[w] = "wa_wait"}

\* _read_acquire from the call: the increment of _waiting_count and the first
\* evaluation of the while condition, then self._queue.wait(), or the
\* decrement, the increment of _readers_active and the end of the with block.
Fair_read_acquire(t) ==
    /\ policy = "fair"
    /\ pc[t] = "ra_enter"
    /\ monitor = None
    /\ IF Fair_ReaderMustWait
       THEN /\ waiting_count' = waiting_count + 1
            /\ queue' = Wait(queue, t)
            /\ Goto(t, "ra_wait")
            /\ UNCHANGED readers_active
       ELSE /\ waiting_count' = (waiting_count + 1) - 1
            /\ readers_active' = readers_active + 1
            /\ Goto(t, "reading")
            /\ UNCHANGED queue
    /\ ahead' = Record(ahead, t, WaitingWriters)
    /\ UNCHANGED <<config, outer, cycles_left, err, monitor, writer_active, fairUnused>>

\* _read_acquire resumed when self._queue.wait() returns: the while condition
\* is evaluated again.
Fair_read_acquire_wake(t) ==
    /\ policy = "fair"
    /\ pc[t] = "ra_wait"
    /\ t \notin Range(queue)
    /\ monitor = None
    /\ IF Fair_ReaderMustWait
       THEN /\ queue' = Wait(queue, t)
            /\ UNCHANGED <<pc, waiting_count, readers_active, ahead>>
       ELSE /\ waiting_count' = waiting_count - 1
            /\ readers_active' = readers_active + 1
            /\ Goto(t, "reading")
            /\ ahead' = Drop(ahead, t)
            /\ UNCHANGED queue
    /\ UNCHANGED <<config, outer, cycles_left, err, monitor, writer_active, fairUnused>>

\* _read_release: the decrement and the notify_all().
Fair_read_release(t) ==
    /\ policy = "fair"
    /\ pc[t] = "rr_enter"
    /\ monitor = None
    /\ readers_active' = readers_active - 1
    /\ queue' = IF readers_active' = 0 /\ waiting_count > 0
                THEN NotifyAll(queue)
                ELSE queue
    /\ Goto(t, AfterRelease(t))
    /\ ahead' = Record(ahead, t, {})
    /\ UNCHANGED <<config, outer, cycles_left, err, monitor, writer_active, waiting_count, fairUnused>>

\* _write_acquire from the call: the increment of _waiting_count and the
\* first evaluation of the while condition, then self._queue.wait(), or the
\* decrement, _writer_active = True and the end of the with block.
Fair_write_acquire(t) ==
    /\ policy = "fair"
    /\ pc[t] = "wa_enter"
    /\ monitor = None
    /\ IF Fair_WriterMustWait
       THEN /\ waiting_count' = waiting_count + 1
            /\ queue' = Wait(queue, t)
            /\ Goto(t, "wa_wait")
            /\ UNCHANGED writer_active
       ELSE /\ waiting_count' = (waiting_count + 1) - 1
            /\ writer_active' = TRUE
            /\ Goto(t, "writing")
            /\ UNCHANGED queue
    /\ ahead' = Record(ahead, t, WaitingReaders \cup WaitingWriters)
    /\ UNCHANGED <<config, outer, cycles_left, err, monitor, readers_active, fairUnused>>

\* _write_acquire resumed when self._queue.wait() returns: the while
\* condition is evaluated again.
Fair_write_acquire_wake(t) ==
    /\ policy = "fair"
    /\ pc[t] = "wa_wait"
    /\ t \notin Range(queue)
    /\ monitor = None
    /\ IF Fair_WriterMustWait
       THEN /\ queue' = Wait(queue, t)
            /\ UNCHANGED <<pc, waiting_count, writer_active, ahead>>
       ELSE /\ waiting_count' = waiting_count - 1
            /\ writer_active' = TRUE
            /\ Goto(t, "writing")
            /\ ahead' = Drop(ahead, t)
            /\ UNCHANGED queue
    /\ UNCHANGED <<config, outer, cycles_left, err, monitor, readers_active, fairUnused>>

\* _write_release: _writer_active = False and the notify_all().
Fair_write_release(t) ==
    /\ policy = "fair"
    /\ pc[t] = "wr_enter"
    /\ monitor = None
    /\ writer_active' = FALSE
    /\ queue' = IF waiting_count > 0 THEN NotifyAll(queue) ELSE queue
    /\ Goto(t, AfterRelease(t))
    /\ ahead' = Record(ahead, t, {})
    /\ UNCHANGED <<config, outer, cycles_left, err, monitor, readers_active, waiting_count, fairUnused>>

FairStep(t) ==
    \/ Fair_read_acquire(t)
    \/ Fair_read_acquire_wake(t)
    \/ Fair_read_release(t)
    \/ Fair_write_acquire(t)
    \/ Fair_write_acquire_wake(t)
    \/ Fair_write_release(t)

----------------------------------------------------------------------------
(* Client threads using only the read()/write() guards *)

\* A thread enters a guard.
Enter(t) == read_enter(t) \/ write_enter(t)

\* The body of a guard ends, normally or with an error.
BodyExit(t) ==
    \/ read_body_done(t)
    \/ read_body_raise(t)
    \/ write_body_done(t)
    \/ write_body_raise(t)

\* A step of the lock's own code.
LockStep(t) == RPStep(t) \/ WPStep(t) \/ FairStep(t)

Next == \E t \in Threads : Enter(t) \/ BodyExit(t) \/ LockStep(t)

Spec == Init /\ [][Next]_vars

TypeOK ==
    /\ policy \in Policies
    /\ history \in BOOLEAN
    /\ pc \in [Threads -> Pcs]
    /\ outer \in [Threads -> {"none", "read", "write"}]
    /\ cycles_left \in [Threads -> Nat]
    /\ err \in [Threads -> {"none", "read", "write"}]
    /\ monitor \in Threads \cup {None}
    /\ reader_count \in Int
    /\ writer_lock \in BOOLEAN
    /\ writer_active \in BOOLEAN
    /\ writer_waiting_count \in Int
    /\ readers_active \in Int
    /\ waiting_count \in Int
    /\ Range(readers_ok) \subseteq Threads
    /\ Range(writers_ok) \subseteq Threads
    /\ Range(queue) \subseteq Threads

----------------------------------------------------------------------------
(* Mutual exclusion *)

\* C1: in no reachable state, whatever the policy, is one thread inside a
\* write critical section while another is inside a read critical section.
NoReaderWithWriter ==
    \A r \in Threads, w \in Threads : ~(InReadCS(r) /\ InWriteCS(w))

\* A writer is inside its critical section and a reader is held back in
\* _read_acquire.
ReaderHeldBackByWriter ==
    \E r \in Threads, w \in Threads :
        /\ InWriteCS(w)
        /\ pc[r] \in {"ra_wait", "ra_gate"}

\* C2: in no reachable state, whatever the policy, are two threads inside a
\* write critical section.
AtMostOneWriter ==
    \A w1 \in Threads, w2 \in Threads :
        InWriteCS(w1) /\ InWriteCS(w2) => w1 = w2

\* A writer is inside its critical section and two more writers have called
\* _write_acquire and are held back.
WritersHeldBackByWriter ==
    \E w \in Threads :
        /\ InWriteCS(w)
        /\ Cardinality({u \in Threads : pc[u] \in WriteAcquirePcs}) >= 2

----------------------------------------------------------------------------
(* WriterPriorityRWLock: priority of the writers *)

NextWriterPriority == \E t \in Threads : Enter(t) \/ BodyExit(t) \/ WPStep(t)

\* WriterPriorityRWLock with the histories prior and owed kept.
SpecWriterPriority == InitLock("writer", TRUE) /\ [][NextWriterPriority]_vars

\* C3: WriterPriorityRWLock: a reader is inside its critical section only
\* when every writer that had incremented _writer_waiting_count (and not
\* finished _write_release) when the reader called _read_acquire has since
\* finished its _write_release.
ReaderAfterRegisteredWriters ==
    policy = "writer" =>
        \A r \in Threads : InReadCS(r) => prior[r] = {}

\* Scenario 1: R1 holds read, W1 is blocked in write(), R2 called read()
\* after W1 registered and waits.
ReaderWaitsBehindRegisteredWriter ==
    /\ policy = "writer"
    /\ \E r1 \in Threads, w1 \in Threads, r2 \in Threads :
        /\ InReadCS(r1)
        /\ pc[w1] = "wa_wait"
        /\ pc[r2] = "ra_wait"
        /\ w1 \in prior[r2]

\* C4: WriterPriorityRWLock: a reader is inside its critical section only
\* when every writer that was queued in _write_acquire at some moment of the
\* reader's _read_acquire has been granted write access.
ReaderAfterQueuedWriters ==
    policy = "writer" =>
        \A r \in Threads : InReadCS(r) => owed[r] = {}

\* A reader is blocked in _read_acquire while two writers are queued.
ReaderBlockedBehindTwoWriters ==
    /\ policy = "writer"
    /\ \E r \in Threads :
        /\ pc[r] = "ra_wait"
        /\ Cardinality(owed[r] \cap QueuedWriters) >= 2

----------------------------------------------------------------------------
(* FairRWLock: order of the grants *)

NextFair == \E t \in Threads : Enter(t) \/ BodyExit(t) \/ FairStep(t)

\* FairRWLock with the history ahead kept.
SpecFairOrder == InitLock("fair", TRUE) /\ [][NextFair]_vars

\* C6: FairRWLock: a thread is inside a critical section only when every
\* conflicting request that incremented _waiting_count before its own has
\* been granted (first come, first served).
FifoGrantOrder ==
    policy = "fair" =>
        \A b \in Threads : InReadCS(b) \/ InWriteCS(b) => ahead[b] = {}

----------------------------------------------------------------------------
(* Errors raised by the body of a guard *)

\* The reader count of the selected class.
ReaderCount == IF policy = "fair" THEN readers_active ELSE reader_count

\* A _write_acquire called now, with no other thread at work, returns at its
\* first attempt.
WriteGrantable ==
    /\ monitor = None
    /\ policy = "reader" => ~writer_lock
    /\ policy = "writer" => ~WP_WriterMustWait
    /\ policy = "fair" => ~Fair_WriterMustWait

\* C9: whatever the policy, once the error of a body has propagated out of
\* read()/write(), that thread holds nothing: it is not in the monitor, the
\* write flag (the writer lock of ReaderPriority) is set only if some thread
\* holds the lock now, and when every other thread is outside the lock or has
\* just called write(), that write is granted at once.
ErrorReleasesLock ==
    \A t \in Threads : pc[t] = "raised" =>
        /\ monitor # t
        /\ writer_active => \E u \in Threads : HoldsWrite(u)
        /\ writer_lock => \E u \in Threads : HoldsWrite(u) \/ HoldsRead(u)
        /\ (\A u \in Threads : pc[u] \in {"idle", "raised", "wa_enter"})
               => WriteGrantable

\* The body of a write() raised, the error propagated, and another thread is
\* inside write() afterwards.
WriteGrantedAfterError ==
    \E t \in Threads, u \in Threads :
        /\ pc[t] = "raised"
        /\ err[t] = "write"
        /\ InWriteCS(u)

----------------------------------------------------------------------------
(* Misuse: _read_release() without a matching _read_acquire() *)

\* A thread outside any guard calls lock._read_release() on an instance whose
\* reader count is 0 and on which no read is held.
bare_read_release(t) ==
    /\ pc[t] \in {"idle", "raised"}
    /\ ReaderCount = 0
    /\ \A u \in Threads : ~HoldsRead(u)
    /\ Goto(t, "rr_enter")
    /\ err' = [err EXCEPT ![t] = "none"]
    /\ UNCHANGED <<config, outer, cycles_left, lockVars, histVars>>

NextMisuse == Next \/ \E t \in Threads : bare_read_release(t)

SpecMisuse == Init /\ [][NextMisuse]_vars

\* C10: whatever the policy, a _read_release() without a matching
\* _read_acquire() never takes the reader count below zero.
MisuseKeepsCountNonNegative == ReaderCount >= 0

----------------------------------------------------------------------------
(* FairRWLock: starvation *)

InitFair == InitLock("fair", FALSE)

\* Every holder eventually leaves its critical section, and a thread whose
\* next step of the lock's code is possible again and again eventually takes
\* it (no thread loses every race for the monitor).  When a thread calls
\* read() or write() again is up to the thread.
SpecFairLive ==
    /\ InitFair
    /\ [][NextFair]_vars
    /\ \A t \in Threads : WF_vars(BodyExit(t)) /\ SF_vars(FairStep(t))

\* C5: FairRWLock: every thread that enters _read_acquire or _write_acquire
\* eventually returns from it.
FairNoStarvation ==
    \A t \in Threads :
        (pc[t] \in ReadAcquirePcs \cup WriteAcquirePcs)
            ~> (InReadCS(t) \/ InWriteCS(t))

----------------------------------------------------------------------------
(* ReaderPriorityRWLock: a writer under a stream of overlapping readers *)
(* (scenario 2: W1 calls write(); R1.. call read(), each reader leaving its *)
(* critical section only when another reader is inside one)                 *)

\* The thread that writes in the streams below; the others read.
W1 == 1

InitReaderStream == InitLock("reader", FALSE)

\* A reader leaves its critical section once another reader is inside its own.
overlapped_read_exit(t) ==
    /\ \E u \in Threads \ {t} : InReadCS(u)
    /\ read_body_done(t)

ReaderStreamStep(t) ==
    \/ t = W1 /\ write_enter(t)
    \/ t # W1 /\ read_enter(t)
    \/ write_body_done(t)
    \/ overlapped_read_exit(t)
    \/ RPStep(t)

NextReaderStream == \E t \in Threads : ReaderStreamStep(t)

SpecReaderStream ==
    /\ InitReaderStream
    /\ [][NextReaderStream]_vars
    /\ \A t \in Threads : SF_vars(ReaderStreamStep(t))

\* C7: ReaderPriorityRWLock, readers overlapping without end under fair
\* scheduling: a writer that is blocked in _write_acquire while a reader holds
\* the lock stays blocked for ever, while every reader enters its critical
\* section and finishes its read() again and again; and _write_acquire
\* returns only in a step that starts with no reader holding the lock.
WriterStarvedByReaderStream ==
    /\ [](\A w \in Threads :
            (pc[w] = "wa_enter" /\ \E r \in Threads : HoldsRead(r))
                => [](pc[w] = "wa_enter"))
    /\ \A r \in Threads \ {W1} : []<>InReadCS(r) /\ []<>(pc[r] = "idle")
    /\ [][\A w \in Threads :
            (pc[w] = "wa_enter" /\ pc'[w] = "writing")
                => \A r \in Threads : ~HoldsRead(r)]_vars

\* The writer is blocked in _write_acquire and two readers overlap.
WriterBlockedByOverlappingReaders ==
    /\ policy = "reader"
    /\ pc[W1] = "wa_enter"
    /\ Cardinality({r \in Threads : InReadCS(r)}) >= 2

----------------------------------------------------------------------------
(* WriterPriorityRWLock: a reader under a steady stream of writers *)
(* (R1 calls read(); the other threads call write(), each writer leaving *)
(* its critical section only when another writer is queued)              *)

\* The thread that reads in the writer stream; the others write.
R1 == 1

InitWriterStream == InitLock("writer", FALSE)

\* A writer leaves its critical section once another writer is queued.
queued_write_exit(t) ==
    /\ QueuedWriters \ {t} # {}
    /\ write_body_done(t)

WriterStreamStep(t) ==
    \/ t = R1 /\ read_enter(t)
    \/ t # R1 /\ write_enter(t)
    \/ read_body_done(t)
    \/ queued_write_exit(t)
    \/ WPStep(t)

NextWriterStream == \E t \in Threads : WriterStreamStep(t)

SpecWriterStream ==
    /\ InitWriterStream
    /\ [][NextWriterStream]_vars
    /\ \A t \in Threads : SF_vars(WriterStreamStep(t))

----------------------------------------------------------------------------
(* Counters *)

\* C11: whatever the policy, when the threads use only read() and write(),
\* the reader count and the waiting counters are never negative.
CountersNonNegative ==
    /\ reader_count >= 0
    /\ readers_active >= 0
    /\ writer_waiting_count >= 0
    /\ waiting_count >= 0

\* WriterPriority: a reader has left after its body raised, its decrement took
\* the reader count back to 0 and woke the one writer that had counted itself
\* as waiting and has not run again yet.
CountersAfterLastReader ==
    /\ policy = "writer"
    /\ reader_count = 0
    /\ writer_waiting_count = 1
    /\ \E r \in Threads, w \in Threads :
           /\ pc[r] = "raised" /\ err[r] = "read"
           /\ pc[w] = "wa_wait"
           /\ w \notin Range(writers_ok)

----------------------------------------------------------------------------
(* Suspension *)

\* Thread t is suspended inside an acquire, waiting for access: inside
\* Condition.wait() and not woken, or inside self._writer_lock.acquire() of
\* ReaderPriority while the writer lock is taken.
Suspended(t) ==
    \/ pc[t] = "ra_wait" /\ t \in Range(readers_ok) \cup Range(queue)
    \/ pc[t] = "wa_wait" /\ t \in Range(writers_ok) \cup Range(queue)
    \/ policy = "reader" /\ pc[t] \in {"ra_gate", "wa_enter"} /\ writer_lock

\* C12: whatever the policy, a thread suspended inside _read_acquire or
\* _write_acquire does not hold the monitor, so that it keeps no other thread
\* out of the monitor while it waits for a writer to finish.
SuspendedHoldsNoMonitor ==
    \A t \in Threads : Suspended(t) => monitor # t

----------------------------------------------------------------------------
(* ReaderPriorityRWLock: readers before writers *)

\* C13: ReaderPriority: _write_acquire returns only when no thread is inside
\* a read critical section and no thread is waiting inside _read_acquire (the
\* first reader, in self._writer_lock.acquire()).
WriterGrantedWithoutReaders ==
    [][policy = "reader" =>
          \A w \in Threads :
              (pc[w] = "wa_enter" /\ pc'[w] = "writing") =>
                  \A r \in Threads : ~HoldsRead(r) /\ pc[r] # "ra_gate"]_vars

----------------------------------------------------------------------------
(* Reentrant use: _write_acquire() by a thread that holds a section *)

\* A thread inside the body of its read() or write() guard calls write() (or
\* _write_acquire()) on the same instance; it still holds the outer section.
nested_write_enter(t) ==
    /\ pc[t] \in {"reading", "writing"}
    /\ outer[t] = "none"
    /\ outer' = [outer EXCEPT ![t] = IF pc[t] = "reading" THEN "read" ELSE "write"]
    /\ Goto(t, "wa_enter")
    /\ UNCHANGED <<config, cycles_left, err, lockVars, histVars>>

NextReentrant == Next \/ \E t \in Threads : nested_write_enter(t)

SpecReentrant == Init /\ [][NextReentrant]_vars

\* C14: whatever the policy and whatever the other threads do, a thread that
\* holds a read or a write section and calls _write_acquire on the same
\* instance never returns from that call, and no error is raised.
NestedWriteNeverReturns ==
    \A t \in Threads : outer[t] # "none" => pc[t] \in WriteAcquirePcs

\* A thread that holds a section is suspended in its second acquire, and so
\* is another thread behind it.
NestedWriteSuspended ==
    \E t \in Threads, u \in Threads :
        /\ outer[t] # "none" /\ Suspended(t)
        /\ t # u /\ outer[u] = "none" /\ Suspended(u)

----------------------------------------------------------------------------
(* Bounded workload: main() starts the threads and joins them all *)

\* Guards each thread started by main() enters: writer() and reader() run one
\* `with lock.write():` / `with lock.read():` and return.
GuardsPerThread == 1

InitBounded == \E p \in Policies : InitWorkload(p, FALSE, GuardsPerThread)

\* A thread with guards left enters its next one, read() or write().
bounded_enter(t) ==
    /\ cycles_left[t] > 0
    /\ \/ read_call(t, [cycles_left EXCEPT ![t] = @ - 1])
       \/ write_call(t, [cycles_left EXCEPT ![t] = @ - 1])

\* The bodies of writer() and reader() finish.
BoundedStep(t) ==
    \/ bounded_enter(t)
    \/ read_body_done(t)
    \/ write_body_done(t)
    \/ LockStep(t)

NextBounded == \E t \in Threads : BoundedStep(t)

\* Every thread that can take a step eventually takes one: it is scheduled,
\* and its body finishes.
SpecBounded ==
    /\ InitBounded
    /\ [][NextBounded]_vars
    /\ \A t \in Threads : WF_vars(BoundedStep(t))

\* thread.join() returns for thread t.
Finished(t) == cycles_left[t] = 0 /\ pc[t] = "idle"

\* C15: whatever the policy, in a bounded workload some unfinished thread can
\* always take a step (no deadlock, no lost wake-up), and every thread
\* eventually finishes.
BoundedWorkloadTerminates ==
    /\ []((\A t \in Threads : Finished(t)) \/ ENABLED NextBounded)
    /\ <>(\A t \in Threads : Finished(t))

\* Every thread but one has finished, and that one has been woken from
\* Condition.wait() and has not run again yet.
LastWaiterWoken ==
    \E t \in Threads :
        /\ pc[t] \in {"ra_wait", "wa_wait"}
        /\ ~Suspended(t)
        /\ \A u \in Threads \ {t} : Finished(u)

----------------------------------------------------------------------------
(* ReaderPriorityRWLock: readers do not wait behind readers *)

\* C16: ReaderPriority: while a thread is inside a read critical section the
\* monitor is free, so that the _read_acquire of another thread can run, and
\* when it runs it returns at once, whether or not writers are blocked in
\* _write_acquire: it adds one to _reader_count and leaves the writer lock as
\* it is.
ReadersJoinReaders ==
    /\ [](policy = "reader" /\ (\E r \in Threads : InReadCS(r)) =>
             /\ monitor = None
             /\ \A t \in Threads :
                    pc[t] = "ra_enter" => ENABLED RP_read_acquire(t))
    /\ [][policy = "reader" =>
            \A t \in Threads :
                (/\ pc[t] = "ra_enter"
                 /\ pc'[t] # "ra_enter"
                 /\ \E r \in Threads \ {t} : InReadCS(r))
                => /\ pc'[t] = "reading"
                   /\ reader_count' = reader_count + 1
                   /\ writer_lock' = writer_lock]_vars

\* Two threads are inside a read critical section while a writer is blocked
\* in _write_acquire.
ReadersOverlapBlockedWriter ==
    /\ policy = "reader"
    /\ reader_count >= 2
    /\ \E r1 \in Threads, r2 \in Threads : r1 # r2 /\ InReadCS(r1) /\ InReadCS(r2)
    /\ \E w \in Threads : pc[w] = "wa_enter"

----------------------------------------------------------------------------
(* Accounting *)

\* Threads between the return of their _read_acquire / _write_acquire and the
\* monitor section of the matching release.
ReadHolders == {t \in Threads : HoldsRead(t)}
WriteHolders == {t \in Threads : HoldsWrite(t)}

\* C17: whatever the policy, whenever the monitor is free the reader count is
\* the number of threads that hold a read section; for WriterPriority and Fair
\* _writer_active is True exactly when a thread holds the write section; and
\* _writer_active implies a reader count of 0.
CountsMatchHolders ==
    monitor = None =>
        /\ ReaderCount = Cardinality(ReadHolders)
        /\ policy \in {"writer", "fair"} => (writer_active <=> WriteHolders # {})
        /\ writer_active => ReaderCount = 0

\* Fair: two threads hold a read section, one of them about to release, after
\* a writer has held the lock and left with an error.
TwoReadersCounted ==
    /\ policy = "fair"
    /\ readers_active = 2
    /\ \E r1 \in Threads, r2 \in Threads : pc[r1] = "reading" /\ pc[r2] = "rr_enter"
    /\ \E w \in Threads : pc[w] = "raised" /\ err[w] = "write"

\* C18: whenever the monitor is free, _writer_waiting_count of WriterPriority
\* is the number of threads that have counted themselves in _write_acquire
\* and are not granted yet, and _waiting_count of Fair is the number of
\* threads that have counted themselves in _read_acquire or _write_acquire
\* and are not granted yet; a thread inside Condition.wait() is always counted.
WaitingCountsMatchWaiters ==
    monitor = None =>
        /\ policy = "writer" => writer_waiting_count = Cardinality(QueuedWriters)
        /\ policy = "fair" =>
               waiting_count = Cardinality(WaitingReaders \cup WaitingWriters)

\* Fair: a writer holds the lock, a reader and a writer wait behind it and one
\* of the two has been woken at least once.
TwoWaitersCounted ==
    /\ policy = "fair"
    /\ waiting_count = 2
    /\ WaitingReaders # {} /\ WaitingWriters # {}
    /\ \E t \in WaitingReaders \cup WaitingWriters : Range(queue) = {t}
    /\ \E w \in Threads : InWriteCS(w)

----------------------------------------------------------------------------
(* WriterPriorityRWLock._write_release *)

\* The step is the monitor section of thread t's _write_release.
WriteReleaseStep(t) ==
    policy = "writer" /\ pc[t] = "wr_enter" /\ pc'[t] # "wr_enter"

\* Threads the step has woken from cv.wait().
Woken(cv, cvNext) == Range(cv) \ Range(cvNext)

\* What _write_release does besides the wake-ups: _writer_active is False
\* afterwards, and neither counter changes.
WriteReleaseFrame ==
    /\ writer_active' = FALSE
    /\ reader_count' = reader_count
    /\ writer_waiting_count' = writer_waiting_count

\* C19 as stated: _write_release of WriterPriority sets _writer_active to
\* False; with _writer_waiting_count > 0 it wakes exactly one thread waiting
\* on _writers_ok and none waiting on _readers_ok, otherwise it wakes every
\* thread waiting on _readers_ok; it changes neither counter.
WriteReleaseWakesExactlyOne ==
    [][\A t \in Threads : WriteReleaseStep(t) =>
          /\ WriteReleaseFrame
          /\ IF writer_waiting_count > 0
             THEN /\ Cardinality(Woken(writers_ok, writers_ok')) = 1
                  /\ readers_ok' = readers_ok
             ELSE /\ readers_ok' = <<>>
                  /\ writers_ok' = writers_ok]_vars

\* C19 as amended: with _writer_waiting_count > 0 it wakes the thread that
\* has waited longest on _writers_ok when there is one, and nobody when every
\* counted writer has been woken already.
WriteReleaseWakesAtMostOne ==
    [][\A t \in Threads : WriteReleaseStep(t) =>
          /\ WriteReleaseFrame
          /\ IF writer_waiting_count > 0
             THEN /\ writers_ok # <<>> =>
                         /\ Woken(writers_ok, writers_ok') = {Head(writers_ok)}
                         /\ Len(writers_ok') = Len(writers_ok) - 1
                  /\ writers_ok = <<>> => writers_ok' = <<>>
                  /\ readers_ok' = readers_ok
             ELSE /\ readers_ok' = <<>>
                  /\ writers_ok' = writers_ok]_vars

\* A writer is about to run _write_release while a counted writer, woken by
\* an earlier release, has not run again: nobody waits on _writers_ok, and a
\* reader waits on _readers_ok.
WriteReleaseFindsNoWaiter ==
    /\ policy = "writer"
    /\ \E t \in Threads : pc[t] = "wr_enter"
    /\ writer_waiting_count > 0
    /\ writers_ok = <<>>
    /\ readers_ok # <<>>

----------------------------------------------------------------------------
(* No leaked holds *)

\* Every guard entered has exited, normally or by error.
Quiescent == \A t \in Threads : pc[t] \in {"idle", "raised"}

\* C20: whatever the policy, when no thread is inside an acquire, a critical
\* section or a release, the lock is as constructed: reader count 0,
\* _writer_active False, waiting counters 0, nobody left on a condition, and
\* the writer lock of ReaderPriority and the monitor free.
QuiescentLockIsInitial ==
    Quiescent =>
        /\ monitor = None
        /\ reader_count = 0 /\ readers_active = 0
        /\ ~writer_active
        /\ ~writer_lock
        /\ writer_waiting_count = 0 /\ waiting_count = 0
        /\ readers_ok = <<>> /\ writers_ok = <<>> /\ queue = <<>>

\* Every guard has exited, one read() and one write() among them by error.
QuiescentAfterErrors ==
    /\ Quiescent
    /\ \E r \in Threads : pc[r] = "raised" /\ err[r] = "read"
    /\ \E w \in Threads : pc[w] = "raised" /\ err[w] = "write"

============================================================================
